---- MODULE Spec2Model ----
(***************************************************************************)
(* Catalogue enrichment scripts of OpenActionAPI/plugins.                  *)
(*                                                                         *)
(* Spec models one execution of update_descriptions.py: main() parses      *)
(* sys.argv, resolves the identifier sequence, update_descriptions() walks *)
(* it calling update_description() per identifier, and main() writes the   *)
(* catalogue file and prints the counts.                                   *)
(*                                                                         *)
(* The GitHub endpoint is the environment: every call of get_repo_info     *)
(* draws its response from Responses.  A user interrupt may arrive while   *)
(* the process is inside time.sleep(300).                                  *)
(***************************************************************************)
EXTENDS Integers, Sequences, FiniteSets, TLC

\* ------------------------------------------------------------------ bounds

\* Largest number of entries in catalogue.json.
NumIds == 2

\* Largest number of command-line arguments after the script name.
MaxArgs == 2

\* ------------------------------------------------------------- vocabulary

\* Identifiers a catalogue may use, in file order; a catalogue of n entries
\* holds the first n of them.
IdPool == <<"a", "b", "c", "d">>

\* A key that is not there: what dict.get answers for it, and what the log
\* holds where there is no identifier or exception.
None == "<none>"

\* JSON null under a key that is there.
Null == "<null>"

GithubUrl == "https://github.com/x/y"
GitlabUrl == "https://gitlab.com/x/z"

\* "github.com" in repo_url
ContainsGithub(repo_url) == repo_url = GithubUrl

\* The entries a catalogue may hold: the repository is absent, on GitHub or
\* elsewhere; the description is absent or present.
Entries == [repository : {None, GithubUrl, GitlabUrl}, description : {None, "old"}]

\* A JSON object is a set of <<key, value>> pairs; {} is the empty document.
JsonGet(json, key, default) ==
    IF \E p \in json : p[1] = key
    THEN (CHOOSE p \in json : p[1] = key)[2]
    ELSE default

\* What the endpoint may answer: the repository's metadata, with a description
\* or with a null one, a success status with an empty JSON document, the
\* rate-limit status, and not-found.
Responses ==
    { [status_code |-> 200, json |-> {<<"description", "new">>, <<"name", "y">>}],
      [status_code |-> 200, json |-> {<<"description", Null>>, <<"name", "y">>}],
      [status_code |-> 200, json |-> {}],
      [status_code |-> 403, json |-> {<<"message", "API rate limit exceeded">>}],
      [status_code |-> 404, json |-> {<<"message", "Not Found">>}] }

\* The command-line words: every identifier of the pool up to NumIds (one that
\* the loaded catalogue does not hold is an unknown identifier), the three
\* flags (one of them typed in mixed case), and a flag the script does not know.
Tokens ==
    {IdPool[k] : k \in 1..NumIds}
        \cup {"--start-from", "--Skip-Update", "--wait-on-rate-limit", "--bogus"}

\* str.lower() on the command-line words.
Lower(arg) ==
    CASE arg = "--Skip-Update" -> "--skip-update"
      [] OTHER -> arg

SeqsUpTo(S, n) == UNION {[1..m -> S] : m \in 0..n}

Range(s) == {s[k] : k \in 1..Len(s)}

\* list.index(x): the first position holding x.
Index(s, x) == CHOOSE k \in 1..Len(s) : s[k] = x /\ \A j \in 1..(k - 1) : s[j] # x

\* ------------------------------------------------------------------ state

VARIABLES
    argv,               \* sys.argv[1:]
    catalogue,          \* the content of catalogue.json
    file_written,       \* main has rewritten catalogue.json
    data,               \* main's data: the loaded catalogue, mutated in place
    all_ids,            \* list(data.keys())
    ids,                \* the identifier sequence being built / processed
    start_from,         \* main's local start_from
    argi,               \* number of arguments the for loop has consumed
    skip_update,        \* module global
    wait_on_rate_limit, \* module global
    failed,             \* module global
    invalid_repo,       \* module global
    performed,          \* module global
    skipped,            \* module global
    succeeded,          \* module global
    i,                  \* number of identifiers update_descriptions has finished
    pc,                 \* where the process is
    stopped_at,         \* the identifier printed as "Stopped at plugin: ", or None
    exc,                \* the exception that escaped main, or None
    hist,               \* log: one record per update_description call
    prev,               \* log: what an earlier process of the same script left
    updateAll,          \* UpdateDescriptions.py: main's local updateAll
    icons               \* FillMissingData.py: the identifiers with a file in ICON_DIR

vars ==
    << argv, catalogue, file_written, data, all_ids, ids, start_from, argi,
       skip_update, wait_on_rate_limit, failed, invalid_repo, performed, skipped,
       succeeded, i, pc, stopped_at, exc, hist, prev, updateAll, icons >>

\* What update_descriptions.py neither reads nor writes within one process.
others == << prev, updateAll, icons >>

\* The five statistics, as one record.
Counters ==
    [ failed |-> failed, invalid_repo |-> invalid_repo, performed |-> performed,
      skipped |-> skipped, succeeded |-> succeeded ]

\* ------------------------------------------------------------------- Init

\* The process has loaded catalogue.json and is about to read its arguments.
Init ==
    /\ \E n \in 0..NumIds :
         /\ all_ids = SubSeq(IdPool, 1, n)
         /\ catalogue \in [{IdPool[k] : k \in 1..n} -> Entries]
    /\ data = catalogue
    /\ argv \in SeqsUpTo(Tokens, MaxArgs)
    /\ file_written = FALSE
    /\ ids = << >>
    /\ start_from = FALSE
    /\ argi = 0
    /\ skip_update = FALSE
    /\ wait_on_rate_limit = FALSE
    /\ failed = 0
    /\ invalid_repo = 0
    /\ performed = 0
    /\ skipped = 0
    /\ succeeded = 0
    /\ i = 0
    /\ pc = "args"
    /\ stopped_at = None
    /\ exc = None
    /\ hist = << >>
    /\ prev = << >>
    /\ updateAll = TRUE
    /\ icons = {}

\* ------------------------------------------------------------ main: args

\* ResumeFrom starting after the named identifier: all_ids[all_ids.index(arg) + 1:].
ResumeFrom_after(keys, arg) == SubSeq(keys, Index(keys, arg) + 1, Len(keys))

\* all_ids[all_ids.index(arg):]
ResumeFrom(keys, arg) == SubSeq(keys, Index(keys, arg), Len(keys))

\* ParseArg passing over a word it does not know, where line 145 exits.
ParseArg_passes_unknown(s, arg, keys) ==
    IF Lower(arg) = "--skip-update" THEN [s EXCEPT !.skip_update = TRUE]
    ELSE IF Lower(arg) = "--wait-on-rate-limit" THEN [s EXCEPT !.wait_on_rate_limit = TRUE]
    ELSE IF Lower(arg) = "--start-from" THEN [s EXCEPT !.start_from = TRUE]
    ELSE IF arg \in Range(keys)
         THEN IF s.start_from
              THEN [s EXCEPT !.ids = ResumeFrom(keys, arg)]
              ELSE [s EXCEPT !.ids = Append(s.ids, arg)]
    ELSE s

\* One iteration of main's "for arg in args" on the parse state s =
\* [skip_update, wait_on_rate_limit, start_from, ids, exit].
ParseArg(s, arg, keys) ==
    IF Lower(arg) = "--skip-update" THEN [s EXCEPT !.skip_update = TRUE]
    ELSE IF Lower(arg) = "--wait-on-rate-limit" THEN [s EXCEPT !.wait_on_rate_limit = TRUE]
    ELSE IF Lower(arg) = "--start-from" THEN [s EXCEPT !.start_from = TRUE]
    ELSE IF arg \in Range(keys)
         THEN IF s.start_from
              THEN [s EXCEPT !.ids = ResumeFrom(keys, arg)]
              ELSE [s EXCEPT !.ids = Append(s.ids, arg)]
    ELSE [s EXCEPT !.exit = TRUE]

\* Where update_descriptions is after n of its identifiers: in the loop, or
\* past it with data returned to main.
LoopPc(n, seq) == IF n < Len(seq) THEN "run" ELSE "returned"

\* main, lines 131-145: the for loop consumes one argument.
main_arg ==
    /\ pc = "args"
    /\ UNCHANGED others
    /\ argi < Len(argv)
    /\ LET s == ParseArg([skip_update |-> skip_update,
                          wait_on_rate_limit |-> wait_on_rate_limit,
                          start_from |-> start_from, ids |-> ids, exit |-> FALSE],
                         argv[argi + 1], all_ids)
       IN /\ skip_update' = s.skip_update
          /\ wait_on_rate_limit' = s.wait_on_rate_limit
          /\ start_from' = s.start_from
          /\ ids' = s.ids
          /\ pc' = IF s.exit THEN "exit" ELSE "args"
    /\ argi' = argi + 1
    /\ UNCHANGED << argv, catalogue, file_written, data, all_ids, failed, invalid_repo,
                    performed, skipped, succeeded, i, stopped_at, exc, hist >>

\* main, lines 147-151: what follows the loop, exit(1) or the sequence handed
\* to update_descriptions.
SelectIds(seq, from, keys) ==
    IF Len(seq) = 0
    THEN IF from
         THEN [exit |-> TRUE, ids |-> seq]
         ELSE [exit |-> FALSE, ids |-> keys]
    ELSE [exit |-> FALSE, ids |-> seq]

\* main, lines 147-153: after the loop, exit(1) or call update_descriptions.
main_select ==
    /\ pc = "args"
    /\ UNCHANGED others
    /\ argi = Len(argv)
    /\ LET sel == SelectIds(ids, start_from, all_ids)
       IN /\ ids' = sel.ids
          /\ pc' = IF sel.exit THEN "exit" ELSE LoopPc(0, sel.ids)
    /\ i' = 0
    /\ UNCHANGED << argv, catalogue, file_written, data, all_ids, start_from, argi,
                    skip_update, wait_on_rate_limit, failed, invalid_repo, performed,
                    skipped, succeeded, stopped_at, exc, hist >>

\* ----------------------------------------------------- update_description

\* AlreadyDescribed without the mode: any entry with a description is skipped.
AlreadyDescribed_any_mode(skip, plugin) == plugin.description # None

\* Line 50: skip_update and "description" in plugin.
AlreadyDescribed(skip, plugin) == skip /\ plugin.description # None

\* NoGithubRepo without the host test: only "not repo_url".
NoGithubRepo_any_host(plugin) == plugin.repository = None

\* Lines 55-56: not repo_url or "github.com" not in repo_url.
NoGithubRepo(plugin) ==
    \/ plugin.repository = None
    \/ ~ContainsGithub(plugin.repository)

\* WaitsOn without "and wait_on_rate_limit".
WaitsOn_always(repo_info, wait) == repo_info.status_code = 403

\* Line 66: the response makes update_description sleep and ask again.
WaitsOn(repo_info, wait) == repo_info.status_code = 403 /\ wait

\* Line 71: the request was unsuccessful.
Unsuccessful(repo_info) == repo_info.status_code < 200 \/ repo_info.status_code >= 300

\* RaisesRateLimited testing for the wrong status (429 Too Many Requests).
RaisesRateLimited_429(repo_info) == repo_info.status_code = 429

\* Line 76: the unsuccessful request raises RateLimitedException.
RaisesRateLimited(repo_info) == repo_info.status_code = 403

\* NoJson testing for None only: an empty document passes.
NoJson_is_none(repo_info) == repo_info.json = {None}

\* Line 82: not json.
NoJson(repo_info) == repo_info.json = {}

\* WithDescription with += for =: the fetched description is appended to the
\* one the plugin has.
WithDescription_appended(plugin, repo_info) ==
    [plugin EXCEPT !.description =
        IF plugin.description = None
        THEN JsonGet(repo_info.json, "description", "")
        ELSE plugin.description \o JsonGet(repo_info.json, "description", "")]

\* Line 87: the plugin with its description taken from the response.
WithDescription(plugin, repo_info) ==
    [plugin EXCEPT !.description = JsonGet(repo_info.json, "description", "")]

\* The log record of a call: the identifier, the entry and the counters it
\* started from, the responses get_repo_info gave it, whether it has ended
\* (returned or raised), and the entry and the counters it ended with.
Call(id, plugin, before, resps, ended, result, after) ==
    [ id |-> id, plugin |-> plugin, before |-> before, resps |-> resps,
      ended |-> ended, result |-> result, after |-> after ]

\* Settle with the break of line 108 left out: the handler prints the stop
\* point and the loop goes on.
Settle_no_break(id, repo_info) ==
    IF Unsuccessful(repo_info)
    THEN /\ failed' = failed + 1
         /\ UNCHANGED << succeeded, data >>
         /\ stopped_at' = IF RaisesRateLimited(repo_info) THEN id ELSE stopped_at
         /\ i' = i + 1
         /\ pc' = LoopPc(i + 1, ids)
    ELSE /\ IF NoJson(repo_info)
            THEN /\ failed' = failed + 1
                 /\ UNCHANGED << succeeded, data >>
            ELSE /\ data' = [data EXCEPT ![id] = WithDescription(data[id], repo_info)]
                 /\ succeeded' = succeeded + 1
                 /\ failed' = failed
         /\ stopped_at' = stopped_at
         /\ i' = i + 1
         /\ pc' = LoopPc(i + 1, ids)

\* Settle raising RateLimitedException before failed is counted (lines 75 and
\* 76-77 in the other order).
Settle_raise_uncounted(id, repo_info) ==
    IF Unsuccessful(repo_info)
    THEN /\ UNCHANGED << succeeded, data >>
         /\ IF RaisesRateLimited(repo_info)
            THEN /\ failed' = failed
                 /\ stopped_at' = id
                 /\ i' = i
                 /\ pc' = "returned"
            ELSE /\ failed' = failed + 1
                 /\ stopped_at' = stopped_at
                 /\ i' = i + 1
                 /\ pc' = LoopPc(i + 1, ids)
    ELSE /\ IF NoJson(repo_info)
            THEN /\ failed' = failed + 1
                 /\ UNCHANGED << succeeded, data >>
            ELSE /\ data' = [data EXCEPT ![id] = WithDescription(data[id], repo_info)]
                 /\ succeeded' = succeeded + 1
                 /\ failed' = failed
         /\ stopped_at' = stopped_at
         /\ i' = i + 1
         /\ pc' = LoopPc(i + 1, ids)

\* update_description from line 71 on, with repo_info the response it ends
\* with, and update_descriptions' handling of its outcome (lines 100-108):
\* the counters other than performed, the entry, and the loop's progress.
Settle(id, repo_info) ==
    IF Unsuccessful(repo_info)
    THEN /\ failed' = failed + 1
         /\ UNCHANGED << succeeded, data >>
         /\ IF RaisesRateLimited(repo_info)
            THEN /\ stopped_at' = id
                 /\ i' = i
                 /\ pc' = "returned"
            ELSE /\ stopped_at' = stopped_at
                 /\ i' = i + 1
                 /\ pc' = LoopPc(i + 1, ids)
    ELSE /\ IF NoJson(repo_info)
            THEN /\ failed' = failed + 1
                 /\ UNCHANGED << succeeded, data >>
            ELSE /\ data' = [data EXCEPT ![id] = WithDescription(data[id], repo_info)]
                 /\ succeeded' = succeeded + 1
                 /\ failed' = failed
         /\ stopped_at' = stopped_at
         /\ i' = i + 1
         /\ pc' = LoopPc(i + 1, ids)

\* update_descriptions takes the next identifier and calls update_description
\* (lines 98-100, 48-92): up to the call's return, its raise, or its sleep.
update_description ==
    /\ pc = "run"
    /\ UNCHANGED others
    /\ LET id == ids[i + 1]
           plugin == data[id]
           before == Counters
       IN /\ performed' = performed + 1
          /\ \/ /\ AlreadyDescribed(skip_update, plugin)
                /\ skipped' = skipped + 1
                /\ i' = i + 1
                /\ pc' = LoopPc(i + 1, ids)
                /\ UNCHANGED << invalid_repo, failed, succeeded, data, stopped_at >>
                /\ hist' = Append(hist, Call(id, plugin, before, << >>, TRUE, data'[id], Counters'))
             \/ /\ ~AlreadyDescribed(skip_update, plugin)
                /\ NoGithubRepo(plugin)
                /\ invalid_repo' = invalid_repo + 1
                /\ i' = i + 1
                /\ pc' = LoopPc(i + 1, ids)
                /\ UNCHANGED << skipped, failed, succeeded, data, stopped_at >>
                /\ hist' = Append(hist, Call(id, plugin, before, << >>, TRUE, data'[id], Counters'))
             \/ /\ ~AlreadyDescribed(skip_update, plugin)
                /\ ~NoGithubRepo(plugin)
                /\ UNCHANGED << skipped, invalid_repo >>
                /\ \E repo_info \in Responses :
                     IF WaitsOn(repo_info, wait_on_rate_limit)
                     THEN /\ pc' = "sleep"
                          /\ UNCHANGED << failed, succeeded, data, stopped_at, i >>
                          /\ hist' = Append(hist, Call(id, plugin, before, << repo_info >>,
                                                       FALSE, data'[id], Counters'))
                     ELSE /\ Settle(id, repo_info)
                          /\ hist' = Append(hist, Call(id, plugin, before, << repo_info >>,
                                                       TRUE, data'[id], Counters'))
    /\ UNCHANGED << argv, catalogue, file_written, all_ids, ids, start_from, argi,
                    skip_update, wait_on_rate_limit, exc >>

\* Lines 68-92: time.sleep(300) returns, get_repo_info is called again and
\* update_description goes on with the second response.
wake_up ==
    /\ pc = "sleep"
    /\ UNCHANGED others
    /\ UNCHANGED << argv, catalogue, file_written, all_ids, ids, start_from, argi,
                    skip_update, wait_on_rate_limit, performed, skipped, invalid_repo, exc >>
    /\ LET call == hist[Len(hist)]
       IN \E repo_info \in Responses :
            /\ Settle(call.id, repo_info)
            /\ hist' = [hist EXCEPT ![Len(hist)] =
                           Call(call.id, call.plugin, call.before,
                                Append(call.resps, repo_info), TRUE,
                                data'[call.id], Counters')]

\* Line 68: the user interrupts time.sleep(300).  KeyboardInterrupt is not a
\* RateLimitedException, no handler catches it, and it ends the process.
keyboard_interrupt ==
    /\ pc = "sleep"
    /\ UNCHANGED others
    /\ pc' = "crashed"
    /\ exc' = "KeyboardInterrupt"
    /\ UNCHANGED << argv, catalogue, file_written, data, all_ids, ids, start_from, argi,
                    skip_update, wait_on_rate_limit, failed, invalid_repo, performed,
                    skipped, succeeded, i, stopped_at, hist >>

\* ---------------------------------------------------------- main: the end

\* Line 169: (succeeded + skipped) / performed raises on a zero divisor.
DivisionRaises(divisor) == divisor = 0

\* main, lines 155-170: write catalogue.json, print the counts and the
\* success percentage.
main_write ==
    /\ pc = "returned"
    /\ UNCHANGED others
    /\ catalogue' = data
    /\ file_written' = TRUE
    /\ IF DivisionRaises(performed)
       THEN pc' = "crashed" /\ exc' = "ZeroDivisionError"
       ELSE pc' = "done" /\ exc' = exc
    /\ UNCHANGED << argv, data, all_ids, ids, start_from, argi, skip_update,
                    wait_on_rate_limit, failed, invalid_repo, performed, skipped,
                    succeeded, i, stopped_at, hist >>

Next ==
    \/ main_arg
    \/ main_select
    \/ update_description
    \/ wake_up
    \/ keyboard_interrupt
    \/ main_write

Spec == Init /\ [][Next]_vars

\* ============================================================== properties

Distinct(seq) == \A j, k \in 1..Len(seq) : j # k => seq[j] # seq[k]

Last(seq) == seq[Len(seq)]

\* The number of get_repo_info calls made for identifier id so far.
FetchCount(id) ==
    Cardinality({ jk \in (1..Len(hist)) \X (1..2) :
                    hist[jk[1]].id = id /\ jk[2] <= Len(hist[jk[1]].resps) })

\* The run halted on a rate-limit: update_descriptions broke out of its loop
\* and returned, and main has not yet written the file.
HaltedOnRateLimit == pc = "returned" /\ stopped_at # None

\* A response that carries metadata: a 2xx status and a non-empty document.
Usable(repo_info) ==
    /\ repo_info.status_code \in 200..299
    /\ repo_info.json # {}

\* The entry a finished call is expected to leave: the description of the
\* response it ended with when that response is usable, else the entry as
\* it was.
Updated(entry, call) ==
    IF call.resps # << >> /\ Usable(Last(call.resps))
    THEN [entry EXCEPT !.description =
             (CHOOSE p \in Last(call.resps).json : p[1] = "description")[2]]
    ELSE entry

\* C1 (partial-progress preservation): when update_descriptions, run over
\* distinct identifiers, halts on a rate-limit at the (k+1)-th identifier, the
\* k calls before it were for ids[1..k] in that order and data holds exactly
\* their updates, the (k+1)-th and every later entry of ids (and every entry
\* outside ids) is as loaded, no later identifier was fetched, and the stop
\* point reported is ids[k+1].
C1_PartialProgress ==
    (HaltedOnRateLimit /\ Distinct(ids)) =>
        LET k == Len(hist) - 1
        IN /\ k \in 0..(Len(ids) - 1)
           /\ stopped_at = ids[k + 1]
           /\ hist[k + 1].id = ids[k + 1]
           /\ \A j \in 1..k :
                 /\ hist[j].id = ids[j]
                 /\ data[ids[j]] = Updated(catalogue[ids[j]], hist[j])
           /\ \A j \in (k + 1)..Len(ids) : data[ids[j]] = catalogue[ids[j]]
           /\ \A j \in (k + 2)..Len(ids) : FetchCount(ids[j]) = 0
           /\ \A id \in DOMAIN data \ Range(ids) : data[id] = catalogue[id]

\* The run halted at its second identifier after updating the first.
C1_Witness ==
    /\ HaltedOnRateLimit
    /\ Distinct(ids)
    /\ Len(ids) = 2
    /\ Len(hist) = 2
    /\ stopped_at = ids[2]
    /\ data[ids[1]] # catalogue[ids[1]]

\* The call ended with the rate-limit status.
RateLimited(call) == call.resps # << >> /\ Last(call.resps).status_code = 403

C3_NeverHaltsWhenWaiting ==
    wait_on_rate_limit => stopped_at = None

\* C4 as claimed (cancellation): a user interrupt during the cooldown sleep
\* lets no exception escape.
C4_InterruptEscapesNowhere ==
    exc # "KeyboardInterrupt"

\* C5 as claimed (at-most-one-fetch): with wait_on_rate_limit off, whatever
\* selection main built, get_repo_info is called at most once per entry.
C5_AtMostOneFetch ==
    ~wait_on_rate_limit => \A id \in DOMAIN data : FetchCount(id) <= 1

\* C5 as amended: with wait_on_rate_limit off and a selection that names no
\* identifier twice, get_repo_info is called at most once per entry.
C5_AtMostOneFetchDistinct ==
    (~wait_on_rate_limit /\ Distinct(ids)) =>
        \A id \in DOMAIN data : FetchCount(id) <= 1

\* A fail-fast run over two different identifiers ended with each fetched.
C5_Witness ==
    /\ ~wait_on_rate_limit
    /\ pc = "done"
    /\ Len(ids) = 2
    /\ Distinct(ids)
    /\ \A id \in Range(ids) : FetchCount(id) = 1

\* The entry names no GitHub repository: the field is absent or names
\* another host.
InvalidRepo(entry) == entry.repository \in {None, GitlabUrl}

RecordFailure(repo_info) ==
    \/ repo_info.status_code \notin 200..299 /\ repo_info.status_code # 403
    \/ repo_info.status_code \in 200..299 /\ repo_info.json = {}

Moved(before, after) ==
    {c \in {"failed", "invalid_repo", "skipped", "succeeded"} : after[c] # before[c]}

Zero == [failed |-> 0, invalid_repo |-> 0, performed |-> 0, skipped |-> 0, succeeded |-> 0]

\* C8 (exactly-once lifecycle, counter conservation): performed counts the
\* calls made; every call that ended incremented performed by one and exactly
\* one of skipped, invalid_repo, failed, succeeded by one; the counters move
\* only inside calls, so nothing is incremented after a halt; and whenever no
\* call is under way (between identifiers, at the end of a completed or a
\* halted run) performed = skipped + invalid_repo + failed + succeeded.
C8_CounterConservation ==
    /\ performed = Len(hist)
    /\ \A j \in 1..Len(hist) :
          /\ hist[j].before = (IF j = 1 THEN Zero ELSE hist[j - 1].after)
          /\ hist[j].after.performed = hist[j].before.performed + 1
          /\ hist[j].ended =>
                /\ Cardinality(Moved(hist[j].before, hist[j].after)) = 1
                /\ \A c \in Moved(hist[j].before, hist[j].after) :
                      hist[j].after[c] = hist[j].before[c] + 1
          /\ j < Len(hist) => hist[j].ended
    /\ Counters = (IF hist = << >> THEN Zero ELSE Last(hist).after)
    /\ (hist = << >> \/ Last(hist).ended) =>
          performed = skipped + invalid_repo + failed + succeeded

\* A run halted at its second identifier and main finished: two calls, two
\* counted outcomes.
C8_Witness ==
    /\ pc = "done"
    /\ stopped_at # None
    /\ Len(ids) = 2
    /\ Distinct(ids)
    /\ performed = 2
    /\ failed = 1
    /\ skipped + invalid_repo + succeeded = 1

\* The arguments that name a catalogue entry, in the order given.
IdArgs == SelectSeq(argv, LAMBDA arg : arg \in DOMAIN catalogue)

IsFlag(arg, flag) == Lower(arg) = flag

HasFlag(flag) == \E k \in 1..Len(argv) : IsFlag(argv[k], flag)

\* An argument main does not know: no flag of the script, no catalogue entry.
Unrecognised(arg) ==
    /\ ~IsFlag(arg, "--skip-update")
    /\ ~IsFlag(arg, "--wait-on-rate-limit")
    /\ ~IsFlag(arg, "--start-from")
    /\ arg \notin DOMAIN catalogue

\* The argument list is an input error: a word main does not know, or
\* --start-from and no identifier at all.
InputError ==
    \/ \E k \in 1..Len(argv) : Unrecognised(argv[k])
    \/ HasFlag("--start-from") /\ IdArgs = << >>

\* main has called update_descriptions.
RunStarted == pc \in {"run", "sleep", "returned", "done", "crashed"}

\* seq is keys from the position of x to the end, x included.
IsSuffixFrom(seq, keys, x) ==
    /\ seq # << >>
    /\ seq[1] = x
    /\ Len(seq) <= Len(keys)
    /\ \A j \in 1..Len(seq) : seq[j] = keys[Len(keys) - Len(seq) + j]

\* C9 (RunSelector resolution): once main has called update_descriptions, ids
\* is all catalogue identifiers in store order when the arguments hold no
\* identifier and no --start-from; exactly the identifier arguments in the
\* order given when they hold identifiers and no --start-from; every
\* identifier from X to the end of the store order, X included, when they
\* hold --start-from followed by X as their only identifier.  The calls of
\* update_description follow ids position by position, and a run that ends
\* without a stop point has made one call per position.
C9_RunSelector ==
    RunStarted =>
        /\ (IdArgs = << >> /\ ~HasFlag("--start-from")) => ids = all_ids
        /\ (IdArgs # << >> /\ ~HasFlag("--start-from")) => ids = IdArgs
        /\ \A k \in 1..Len(argv) :
              (IsFlag(argv[k], "--start-from") /\ Len(IdArgs) = 1
                  /\ \E m \in (k + 1)..Len(argv) : argv[m] = IdArgs[1])
                  => IsSuffixFrom(ids, all_ids, IdArgs[1])
        /\ Len(hist) <= Len(ids)
        /\ \A j \in 1..Len(hist) : hist[j].id = ids[j]
        /\ (pc \in {"returned", "done"} /\ stopped_at = None) => Len(hist) = Len(ids)
        /\ all_ids = SubSeq(IdPool, 1, Len(all_ids))
        /\ Range(all_ids) = DOMAIN catalogue

\* --start-from b on a catalogue of a and b ran to its end over b alone.
C9_Witness ==
    /\ pc = "done"
    /\ stopped_at = None
    /\ Len(all_ids) = 2
    /\ argv = << "--start-from", all_ids[2] >>
    /\ ids = << all_ids[2] >>
    /\ Len(hist) = 1
    /\ hist[1].id = all_ids[2]

ModeFlags == {"--Skip-Update", "--wait-on-rate-limit"}

InitResume ==
    /\ Init
    /\ argv \in SeqsUpTo(ModeFlags, MaxArgs)

\* What a finished process leaves for the log.
Left == [hist |-> hist, stopped_at |-> stopped_at, ids |-> ids, data |-> data]

\* A process starts (lines 19-28, 114-129): the globals have their initial
\* values, main loads catalogue.json and is about to read the arguments args.
Start(args) ==
    /\ argv' = args
    /\ data' = catalogue
    /\ all_ids' = all_ids
    /\ catalogue' = catalogue
    /\ file_written' = FALSE
    /\ ids' = << >>
    /\ start_from' = FALSE
    /\ argi' = 0
    /\ skip_update' = FALSE
    /\ wait_on_rate_limit' = FALSE
    /\ failed' = 0
    /\ invalid_repo' = 0
    /\ performed' = 0
    /\ skipped' = 0
    /\ succeeded' = 0
    /\ i' = 0
    /\ pc' = "args"
    /\ stopped_at' = None
    /\ exc' = None
    /\ hist' = << >>

\* The first process stopped on a rate-limit and ended; the script is started
\* again with the same mode flags and --start-from <the stop point>.
resume ==
    /\ pc = "done"
    /\ stopped_at # None
    /\ prev = << >>
    /\ prev' = << Left >>
    /\ Start(argv \o << "--start-from", stopped_at >>)
    /\ UNCHANGED << updateAll, icons >>

NextResume ==
    \/ Next
    \/ resume

SpecResume == InitResume /\ [][NextResume]_vars

\* The identifiers of the calls numbered from..to in a log.
Examined(log, from, to) == {log[j].id : j \in from..to}

\* The identifiers fetched by the calls numbered from..to in a log.
Fetched(log, from, to) == {log[j].id : j \in {k \in from..to : log[k].resps # << >>}}

\* C11 (resumption coverage): when the first run, over all identifiers, halted
\* at X and the second run, given --start-from X, ran to completion, the
\* identifiers the first run completed (those before X) and the identifiers
\* the second run examined are together all identifiers of the catalogue, the
\* second run began at X, and no identifier is both in the completed prefix
\* and in the resumed run, so none is fetched in both.
C11_ResumptionCoverage ==
    (prev # << >> /\ pc = "done" /\ stopped_at = None) =>
        LET first == prev[1].hist
            k == Len(first) - 1
        IN /\ prev[1].ids = all_ids
           /\ first[k + 1].id = prev[1].stopped_at
           /\ hist[1].id = prev[1].stopped_at
           /\ Examined(first, 1, k) \cup Examined(hist, 1, Len(hist)) = DOMAIN catalogue
           /\ Examined(first, 1, k) \cap Examined(hist, 1, Len(hist)) = {}
           /\ Fetched(first, 1, k) \cap Fetched(hist, 1, Len(hist)) = {}
           /\ Len(hist) = Cardinality(Examined(hist, 1, Len(hist)))

\* The first run updated a and halted at b; the second, from b, fetched b and
\* ended.
C11_Witness ==
    /\ prev # << >>
    /\ pc = "done"
    /\ stopped_at = None
    /\ Len(prev[1].hist) = 2
    /\ Fetched(prev[1].hist, 1, 1) = {all_ids[1]}
    /\ Fetched(hist, 1, Len(hist)) = {all_ids[2]}

\* ===================================================== UpdateDescriptions.py

\* SpecLegacy: one process of UpdateDescriptions.py.  Its globals skipUpdate,
\* waitOnRateLimit, skiped and success are the variables skip_update,
\* wait_on_rate_limit, skipped and succeeded; startFrom is start_from.  main
\* runs UpdateDescriptions from inside its argument loop, so ids and i hold
\* the keys of the loop in progress (lines 188, 196 or 120) and its position.

\* The command-line words, all in the case the script compares with; --help
\* and --log, which select and change nothing, are left out.
LegacyTokens ==
    {IdPool[k] : k \in 1..NumIds}
        \cup {"--start-from", "--skip-update", "--wait-on-rate-limit", "--bogus"}

\* How often UpdateDescription may find the rate-limit status again after it
\* has slept (the while loop of lines 63-85 has no limit of its own).
MaxNaps == 1

\* arg.startswith("--") or arg.startswith("-")
StartsWithDash(arg) == arg \in {"--start-from", "--skip-update", "--wait-on-rate-limit", "--bogus"}

\* The integer n held where a catalogue is expected (line 203 after line 111).
JustNumber(n) == [number |-> n]

InitLegacy ==
    /\ \E n \in 0..NumIds :
         /\ all_ids = SubSeq(IdPool, 1, n)
         /\ catalogue \in [{IdPool[k] : k \in 1..n} -> Entries]
    /\ data = catalogue
    /\ argv \in SeqsUpTo(LegacyTokens, MaxArgs)
    /\ file_written = FALSE
    /\ ids = << >>
    /\ start_from = FALSE
    /\ argi = 0
    /\ skip_update = FALSE
    /\ wait_on_rate_limit = FALSE
    /\ failed = 0
    /\ invalid_repo = 0
    /\ performed = 0
    /\ skipped = 0
    /\ succeeded = 0
    /\ i = 0
    /\ pc = "L_args"
    /\ stopped_at = None
    /\ exc = None
    /\ hist = << >>
    /\ prev = << >>
    /\ updateAll = TRUE
    /\ icons = {}

\* One iteration of main's "for arg in args" (lines 155-200) up to the first
\* call of UpdateDescriptions, on the parse state s = [skip_update,
\* wait_on_rate_limit, start_from, updateAll, ids, quit]: ids are the keys the
\* iteration updates, quit is the return of line 178.
LegacyParseArg(s, arg, keys) ==
    IF arg = "--skip-update" THEN [s EXCEPT !.skip_update = TRUE]
    ELSE IF arg = "--wait-on-rate-limit" THEN [s EXCEPT !.wait_on_rate_limit = TRUE]
    ELSE IF arg = "--start-from" THEN [s EXCEPT !.start_from = TRUE]
    ELSE IF StartsWithDash(arg) THEN [s EXCEPT !.quit = TRUE]
    ELSE IF arg \in Range(keys)
         THEN IF s.start_from
              THEN [s EXCEPT !.updateAll = FALSE, !.start_from = FALSE,
                             !.ids = ResumeFrom(keys, arg)]
              ELSE [s EXCEPT !.updateAll = FALSE, !.ids = << arg >>]
    ELSE s

\* main, lines 155-200: the for loop takes one argument.
L_main_arg ==
    /\ pc = "L_args"
    /\ argi < Len(argv)
    /\ LET s == LegacyParseArg([skip_update |-> skip_update,
                                wait_on_rate_limit |-> wait_on_rate_limit,
                                start_from |-> start_from, updateAll |-> updateAll,
                                ids |-> << >>, quit |-> FALSE],
                               argv[argi + 1], all_ids)
       IN /\ skip_update' = s.skip_update
          /\ wait_on_rate_limit' = s.wait_on_rate_limit
          /\ start_from' = s.start_from
          /\ updateAll' = s.updateAll
          /\ ids' = s.ids
          /\ pc' = IF s.quit THEN "quit"
                   ELSE IF s.ids # << >> THEN "L_run"
                   ELSE "L_args"
    /\ argi' = argi + 1
    /\ i' = 0
    /\ UNCHANGED << argv, catalogue, file_written, data, all_ids, failed, invalid_repo,
                    performed, skipped, succeeded, stopped_at, exc, hist, prev, icons >>

\* main, lines 202-203: after the loop, the full update or straight to the
\* write.
L_main_all ==
    /\ pc = "L_args"
    /\ argi = Len(argv)
    /\ ids' = IF updateAll THEN all_ids ELSE << >>
    /\ i' = 0
    /\ pc' = IF updateAll /\ all_ids # << >> THEN "L_run" ELSE "L_write"
    /\ UNCHANGED << argv, catalogue, file_written, data, all_ids, start_from, argi,
                    skip_update, wait_on_rate_limit, failed, invalid_repo, performed,
                    skipped, succeeded, stopped_at, exc, hist, prev, updateAll, icons >>

\* Where main is after n of the keys seq of the loop in progress: in it, past
\* the full update (line 205), or back in the argument loop (lines 194, 200).
LegacyLoopPc(n, seq, all) ==
    IF n < Len(seq) THEN "L_run"
    ELSE IF all THEN "L_write"
    ELSE "L_args"

\* UpdateDescription returned 403 for id (lines 80, 84).  UpdateDescriptions
\* over one entry returns 403 (line 111), which main's argument loop answers
\* with return (lines 192, 199) and line 203 stores in data; over several
\* entries it prints the stop point and breaks (lines 123-128).
LegacyHalt(id) ==
    /\ i' = i
    /\ IF ~updateAll
       THEN /\ pc' = "quit"
            /\ UNCHANGED << data, stopped_at >>
       ELSE /\ pc' = "L_write"
            /\ IF Len(all_ids) = 1
               THEN data' = JustNumber(403) /\ stopped_at' = stopped_at
               ELSE data' = data /\ stopped_at' = id

\* UpdateDescription from line 87 on, with repo_info the response that left
\* the while loop, and the step of the loop it was called from.
LegacySettle(id, repo_info) ==
    /\ IF NoJson(repo_info)
       THEN /\ failed' = failed + 1
            /\ UNCHANGED << succeeded, data >>
       ELSE /\ data' = [data EXCEPT ![id] = WithDescription(data[id], repo_info)]
            /\ succeeded' = succeeded + 1
            /\ failed' = failed
    /\ stopped_at' = stopped_at
    /\ i' = i + 1
    /\ pc' = LegacyLoopPc(i + 1, ids, updateAll)

\* The entry of id after a step, data being possibly no catalogue any more.
EntryAfter(id, plugin, after) == IF id \in DOMAIN after THEN after[id] ELSE plugin

\* UpdateDescriptions takes the next key and calls UpdateDescription (lines
\* 106-107, 120-121, 43-100): up to the call's return or its sleep.
L_UpdateDescription ==
    /\ pc = "L_run"
    /\ UNCHANGED << argv, catalogue, file_written, all_ids, ids, start_from, argi,
                    skip_update, wait_on_rate_limit, exc, prev, updateAll, icons >>
    /\ LET id == ids[i + 1]
           plugin == data[id]
           before == Counters
       IN /\ performed' = performed + 1
          /\ \/ /\ AlreadyDescribed(skip_update, plugin)
                /\ skipped' = skipped + 1
                /\ i' = i + 1
                /\ pc' = LegacyLoopPc(i + 1, ids, updateAll)
                /\ UNCHANGED << invalid_repo, failed, succeeded, data, stopped_at >>
                /\ hist' = Append(hist, Call(id, plugin, before, << >>, TRUE, plugin, Counters'))
             \/ /\ ~AlreadyDescribed(skip_update, plugin)
                /\ NoGithubRepo(plugin)
                /\ invalid_repo' = invalid_repo + 1
                /\ i' = i + 1
                /\ pc' = LegacyLoopPc(i + 1, ids, updateAll)
                /\ UNCHANGED << skipped, failed, succeeded, data, stopped_at >>
                /\ hist' = Append(hist, Call(id, plugin, before, << >>, TRUE, plugin, Counters'))
             \/ /\ ~AlreadyDescribed(skip_update, plugin)
                /\ ~NoGithubRepo(plugin)
                /\ UNCHANGED << skipped, invalid_repo >>
                /\ \E repo_info \in Responses :
                     IF repo_info.status_code = 403
                     THEN IF wait_on_rate_limit
                          THEN /\ pc' = "L_sleep"
                               /\ UNCHANGED << failed, succeeded, data, stopped_at, i >>
                               /\ hist' = Append(hist, Call(id, plugin, before, << repo_info >>,
                                                            FALSE, plugin, Counters'))
                          ELSE /\ failed' = failed + 1
                               /\ succeeded' = succeeded
                               /\ LegacyHalt(id)
                               /\ hist' = Append(hist, Call(id, plugin, before, << repo_info >>,
                                                            TRUE, plugin, Counters'))
                     ELSE /\ LegacySettle(id, repo_info)
                          /\ hist' = Append(hist, Call(id, plugin, before, << repo_info >>,
                                                       TRUE, EntryAfter(id, plugin, data'),
                                                       Counters'))

\* Lines 76, 81, 65-100: time.sleep(300) returns, the loop asks again and
\* either sleeps again or goes on with the response.
L_wake_up ==
    /\ pc = "L_sleep"
    /\ UNCHANGED << argv, catalogue, file_written, all_ids, ids, start_from, argi,
                    skip_update, wait_on_rate_limit, performed, skipped, invalid_repo,
                    exc, prev, updateAll, icons >>
    /\ LET call == hist[Len(hist)]
       IN \E repo_info \in Responses :
            IF repo_info.status_code = 403
            THEN /\ Len(call.resps) <= MaxNaps
                 /\ UNCHANGED << failed, succeeded, data, stopped_at, i, pc >>
                 /\ hist' = [hist EXCEPT ![Len(hist)] =
                                Call(call.id, call.plugin, call.before,
                                     Append(call.resps, repo_info), FALSE,
                                     call.plugin, Counters')]
            ELSE /\ LegacySettle(call.id, repo_info)
                 /\ hist' = [hist EXCEPT ![Len(hist)] =
                                Call(call.id, call.plugin, call.before,
                                     Append(call.resps, repo_info), TRUE,
                                     EntryAfter(call.id, call.plugin, data'), Counters')]

\* Lines 77-80: the user interrupts time.sleep(300); UpdateDescription counts
\* a failure and returns 403.
L_keyboard_interrupt ==
    /\ pc = "L_sleep"
    /\ UNCHANGED << argv, catalogue, file_written, all_ids, ids, start_from, argi,
                    skip_update, wait_on_rate_limit, performed, skipped, invalid_repo,
                    exc, prev, updateAll, icons >>
    /\ failed' = failed + 1
    /\ succeeded' = succeeded
    /\ LET call == hist[Len(hist)]
       IN /\ LegacyHalt(call.id)
          /\ hist' = [hist EXCEPT ![Len(hist)] =
                         Call(call.id, call.plugin, call.before, call.resps, TRUE,
                              call.plugin, Counters')]

\* main, lines 205-215: write catalogue.json, print the counts and the
\* success percentage.
L_main_write ==
    /\ pc = "L_write"
    /\ catalogue' = data
    /\ file_written' = TRUE
    /\ IF DivisionRaises(performed)
       THEN pc' = "crashed" /\ exc' = "ZeroDivisionError"
       ELSE pc' = "done" /\ exc' = exc
    /\ UNCHANGED << argv, data, all_ids, ids, start_from, argi, skip_update,
                    wait_on_rate_limit, failed, invalid_repo, performed, skipped,
                    succeeded, i, stopped_at, hist, prev, updateAll, icons >>

NextLegacy ==
    \/ L_main_arg
    \/ L_main_all
    \/ L_UpdateDescription
    \/ L_wake_up
    \/ L_keyboard_interrupt
    \/ L_main_write

SpecLegacy == InitLegacy /\ [][NextLegacy]_vars

\* The process of UpdateDescriptions.py is over: main returned before the
\* write, returned after its last print, or an exception ended it.
LegacyOver == pc \in {"quit", "done", "crashed"}

\* The call returned 403: it ended on the rate-limit status.
Returned403(call) == call.ended /\ RateLimited(call)

\* The j-th call is the last one for its identifier among the first n calls.
LastFor(j, n) == \A m \in (j + 1)..n : hist[m].id # hist[j].id

\* C12 as claimed (run-level halt is committed and reported): whenever a call
\* of UpdateDescription returned 403 and the process is over, main has written
\* the catalogue file, the file holds every identifier and the entries as the
\* earlier calls left them, the final counts were printed, and the identifier
\* of the halted call was reported as the stop point.
C12_HaltCommittedAndReported ==
    \A k \in 1..Len(hist) :
        (LegacyOver /\ Returned403(hist[k])) =>
            /\ file_written
            /\ DOMAIN catalogue = Range(all_ids)
            /\ \A j \in 1..(k - 1) :
                  LastFor(j, k - 1) => catalogue[hist[j].id] = hist[j].result
            /\ pc = "done"
            /\ stopped_at = hist[k].id

\* The last response of the call has a non-success status other than 403.
OtherFailure(call) ==
    /\ call.resps # << >>
    /\ Unsuccessful(Last(call.resps))
    /\ Last(call.resps).status_code # 403

\* C17 as claimed (record-level failure in UpdateDescriptions.py): a call whose
\* response has a non-success status other than 403 counts the identifier as
\* failed, not as succeeded, and leaves the entry's description as it was.
C17_LegacyRecordFailure ==
    \A k \in 1..Len(hist) :
        (hist[k].ended /\ OtherFailure(hist[k])) =>
            /\ hist[k].after.failed = hist[k].before.failed + 1
            /\ hist[k].after.succeeded = hist[k].before.succeeded
            /\ hist[k].result.description = hist[k].plugin.description

\* The word is neither an identifier of the catalogue nor a flag the script
\* knows.
LegacyUnrecognised(arg) ==
    /\ arg \notin Range(all_ids)
    /\ arg \notin {"--start-from", "--skip-update", "--wait-on-rate-limit"}

\* C20 as claimed (input errors in UpdateDescriptions.py): when the argument
\* list holds, at any position, an identifier the catalogue does not have or a
\* flag the script does not know, get_repo_info is called for no identifier
\* and the catalogue file is not rewritten.
C20_LegacyInputErrorNoRun ==
    (\E k \in 1..Len(argv) : LegacyUnrecognised(argv[k])) =>
        /\ \A j \in 1..Len(hist) : hist[j].resps = << >>
        /\ ~file_written

\* ========================================================= FillMissingData.py

\* SpecFill: one process of FillMissingData.py.  ids and i hold the keys
\* fill_missing_fields iterates over and its position; hist has one record per
\* entry the loop has taken.

\* The fields fill_missing_fields may fill.
FillFields == {"name", "author", "download_url", "description"}

\* An entry with the given repository, the fields in absent not being keys of
\* it and the other ones holding a value.
FillEntry(repo, absent) ==
    [ repository |-> repo,
      name |-> IF "name" \in absent THEN None ELSE "old",
      author |-> IF "author" \in absent THEN None ELSE "old",
      download_url |-> IF "download_url" \in absent THEN None ELSE "old",
      description |-> IF "description" \in absent THEN None ELSE "old" ]

\* The sets of fields an entry on GitHub may lack: none, the download URL,
\* the name, the download URL and the description, all four.
Absences ==
    { {}, {"download_url"}, {"name"}, {"download_url", "description"}, FillFields }

\* The entries a catalogue may hold: on GitHub, on another host, or without
\* repository.
FillEntries ==
    {FillEntry(GithubUrl, absent) : absent \in Absences}
        \cup {FillEntry(GitlabUrl, FillFields), FillEntry(None, {"download_url"})}

\* What the endpoint may answer to get_repo_info: the repository's metadata
\* (owner.login stands for the login inside the owner object), an empty JSON
\* document, the rate-limit error and not-found.
FillResponses ==
    { [status_code |-> 200,
       json |-> {<<"name", "streamdeck-y">>, <<"owner.login", "x">>, <<"description", "new">>}],
      [status_code |-> 200, json |-> {}],
      [status_code |-> 403, json |-> {<<"message", "API rate limit exceeded">>}],
      [status_code |-> 404, json |-> {<<"message", "Not Found">>}] }

\* The URL find_download_url returns when it finds a release asset.
DownloadUrl == "https://github.com/x/y/releases/download/y.streamDeckPlugin"

\* sys.argv[1:]: nothing, or one plugin key, which the catalogue may lack.
FillArgs == {<< >>} \cup {<< IdPool[k] >> : k \in 1..NumIds}

\* Lines 21-26: lower case, the streamdeck- prefix removed, - and _ turned
\* into spaces, title case.
format_name(repo_name) ==
    CASE repo_name = "streamdeck-y" -> "Y"
      [] repo_name = "y" -> "Y"
      [] OTHER -> repo_name

\* key in json
HasKey(json, key) == \E p \in json : p[1] = key

\* The JSON document null, which response.json() gives as None.
JsonNull == {<< Null, Null >>}

\* "403" in message
Has403(message) == message = "403"

\* Line 90: repo_info is None and "403" in repo_info.get("message", "").
RateLimitSeen(json) == json = JsonNull /\ Has403(JsonGet(json, "message", ""))

\* Missing with the test left out: the field is filled whenever the entry is
\* fetched.
Missing_always(plugin, field) == TRUE

\* Lines 77-80, 108: the field is not a key of the plugin.
Missing(plugin, field) == plugin[field] = None

\* Line 81: no file for the key in ICON_DIR.
MissingIcon(key, store) == key \notin store

\* NeedsFetch without the icon test.
NeedsFetch_fields_only(key, plugin, store) ==
    \/ Missing(plugin, "name")
    \/ Missing(plugin, "author")
    \/ Missing(plugin, "download_url")
    \/ Missing(plugin, "description")

\* Line 83, negated: something of the entry is missing.
NeedsFetch(key, plugin, store) ==
    \/ Missing(plugin, "name")
    \/ Missing(plugin, "author")
    \/ Missing(plugin, "download_url")
    \/ MissingIcon(key, store)
    \/ Missing(plugin, "description")

\* Lines 97-109 on the plugin as it was fetched: the entry these lines leave
\* and the KeyError they raise, or None, dl being find_download_url's answer.
Fill(plugin, json, dl) ==
    IF Missing(plugin, "name") /\ ~HasKey(json, "name")
    THEN [plugin |-> plugin, raised |-> "KeyError"]
    ELSE LET named == IF Missing(plugin, "name")
                      THEN [plugin EXCEPT !.name = format_name(JsonGet(json, "name", None))]
                      ELSE plugin
         IN IF Missing(plugin, "author") /\ ~HasKey(json, "owner.login")
            THEN [plugin |-> named, raised |-> "KeyError"]
            ELSE LET authored == IF Missing(plugin, "author")
                                 THEN [named EXCEPT !.author = JsonGet(json, "owner.login", None)]
                                 ELSE named
                     linked == IF Missing(plugin, "download_url") /\ dl # None
                               THEN [authored EXCEPT !.download_url = dl]
                               ELSE authored
                     described == IF Missing(linked, "description")
                                  THEN [linked EXCEPT !.description =
                                            JsonGet(json, "description", "")]
                                  ELSE linked
                IN [plugin |-> described, raised |-> None]

\* The log record of one iteration of fill_missing_fields: the key, the entry
\* it started from and whether the key had an icon file, the responses
\* get_repo_info gave, the helpers that made further requests,
\* find_download_url's answer, the entry it ended with and the exception it
\* raised.
Visit(id, plugin, had_icon, resps, more, dl, result, raised) ==
    [ id |-> id, plugin |-> plugin, had_icon |-> had_icon, resps |-> resps,
      more |-> more, dl |-> dl, ended |-> TRUE, result |-> result, raised |-> raised ]

\* The answer of a helper that was not called.
NotAsked == "<not asked>"

\* What get_repo_info may answer for key: anything the endpoint answers, and
\* in a process that follows another one what it answered for key the first
\* time, when it was asked.
GivenTo(key) ==
    LET asked == IF prev = << >> THEN {}
                 ELSE {k \in 1..Len(prev[1].hist) :
                         prev[1].hist[k].id = key /\ prev[1].hist[k].resps # << >>}
    IN IF asked = {}
       THEN FillResponses
       ELSE {prev[1].hist[k].resps[1] : k \in asked}

InitFill ==
    /\ \E n \in 0..NumIds :
         /\ all_ids = SubSeq(IdPool, 1, n)
         /\ catalogue \in [{IdPool[k] : k \in 1..n} -> FillEntries]
    /\ data = catalogue
    /\ argv \in FillArgs
    /\ icons \in {{}, DOMAIN catalogue}
    /\ file_written = FALSE
    /\ ids = << >>
    /\ start_from = FALSE
    /\ argi = 0
    /\ skip_update = FALSE
    /\ wait_on_rate_limit = FALSE
    /\ failed = 0
    /\ invalid_repo = 0
    /\ performed = 0
    /\ skipped = 0
    /\ succeeded = 0
    /\ i = 0
    /\ pc = "F_start"
    /\ stopped_at = None
    /\ exc = None
    /\ hist = << >>
    /\ prev = << >>
    /\ updateAll = TRUE

\* What FillMissingData.py neither reads nor writes.
unused ==
    << start_from, argi, skip_update, wait_on_rate_limit, failed, invalid_repo,
       performed, skipped, succeeded, stopped_at, updateAll >>

\* Where main is after n of the keys seq: in fill_missing_fields' loop or past
\* it, about to write.
FillLoopPc(n, seq) == IF n < Len(seq) THEN "F_run" ELSE "F_write"

\* main, lines 121-131: the optional plugin key selects one entry, all
\* entries are taken without it, and a key the catalogue lacks ends main.
F_main ==
    /\ pc = "F_start"
    /\ IF Len(argv) > 0
       THEN IF argv[1] \in DOMAIN data
            THEN ids' = << argv[1] >> /\ pc' = "F_run"
            ELSE ids' = ids /\ pc' = "quit"
       ELSE ids' = all_ids /\ pc' = FillLoopPc(0, all_ids)
    /\ i' = 0
    /\ UNCHANGED << argv, catalogue, file_written, data, all_ids, exc, hist, prev, icons >>
    /\ UNCHANGED unused

\* fill_missing_fields, lines 71-112: one iteration of the loop.
F_fill ==
    /\ pc = "F_run"
    /\ UNCHANGED << argv, catalogue, file_written, all_ids, ids, prev >>
    /\ UNCHANGED unused
    /\ LET key == ids[i + 1]
           plugin == data[key]
       IN IF NoGithubRepo(plugin) \/ ~NeedsFetch(key, plugin, icons)
          THEN /\ i' = i + 1
               /\ pc' = FillLoopPc(i + 1, ids)
               /\ UNCHANGED << data, icons, exc >>
               /\ hist' = Append(hist, Visit(key, plugin, key \in icons, << >>, {}, NotAsked, plugin, None))
          ELSE \E repo_info \in GivenTo(key) :
                 IF RateLimitSeen(repo_info.json)
                 THEN /\ i' = i
                      /\ pc' = "F_write"
                      /\ UNCHANGED << data, icons, exc >>
                      /\ hist' = Append(hist, Visit(key, plugin, key \in icons, << repo_info >>, {},
                                                   NotAsked, plugin, None))
                 ELSE IF NoJson(repo_info)
                 THEN /\ i' = i + 1
                      /\ pc' = FillLoopPc(i + 1, ids)
                      /\ UNCHANGED << data, icons, exc >>
                      /\ hist' = Append(hist, Visit(key, plugin, key \in icons, << repo_info >>, {},
                                                   NotAsked, plugin, None))
                 ELSE \E dl \in IF Missing(plugin, "download_url")
                                THEN {None, DownloadUrl} ELSE {NotAsked} :
                      \E saved \in IF MissingIcon(key, icons) THEN BOOLEAN ELSE {FALSE} :
                        LET out == Fill(plugin, repo_info.json, dl)
                            more == {h \in {"find_download_url", "download_icon"} :
                                       \/ h = "find_download_url" /\ dl # NotAsked
                                       \/ h = "download_icon" /\ MissingIcon(key, icons)}
                        IN /\ data' = [data EXCEPT ![key] = out.plugin]
                           /\ IF out.raised # None
                              THEN /\ pc' = "crashed"
                                   /\ exc' = out.raised
                                   /\ i' = i
                                   /\ icons' = icons
                                   /\ hist' = Append(hist, Visit(key, plugin, key \in icons,
                                                                << repo_info >>, {}, NotAsked, out.plugin,
                                                                out.raised))
                              ELSE /\ pc' = FillLoopPc(i + 1, ids)
                                   /\ exc' = exc
                                   /\ i' = i + 1
                                   /\ icons' = IF saved THEN icons \cup {key} ELSE icons
                                   /\ hist' = Append(hist, Visit(key, plugin, key \in icons,
                                                                << repo_info >>, more, dl, out.plugin, None))

\* main, lines 133-135: write catalogue.json.
F_main_write ==
    /\ pc = "F_write"
    /\ catalogue' = data
    /\ file_written' = TRUE
    /\ pc' = "F_done"
    /\ UNCHANGED << argv, data, all_ids, ids, i, exc, hist, prev, icons >>
    /\ UNCHANGED unused

NextFill ==
    \/ F_main
    \/ F_fill
    \/ F_main_write

SpecFill == InitFill /\ [][NextFill]_vars

\* C14 (fill-only): until main writes the file, every entry of data has the
\* repository the file has and, for each of name, author, download_url and
\* description that the file's entry holds, the same value; every iteration
\* of fill_missing_fields ends with these fields as it found them; data and
\* the file always have the identifiers the catalogue was loaded with, and
\* what main writes is data.
C14_FillOnly ==
    /\ DOMAIN data = Range(all_ids)
    /\ DOMAIN catalogue = Range(all_ids)
    /\ file_written => catalogue = data
    /\ ~file_written =>
          \A id \in DOMAIN data :
              /\ data[id].repository = catalogue[id].repository
              /\ \A f \in FillFields :
                    catalogue[id][f] # None => data[id][f] = catalogue[id][f]
    /\ \A k \in 1..Len(hist) :
          /\ hist[k].result.repository = hist[k].plugin.repository
          /\ \A f \in FillFields :
                hist[k].plugin[f] # None => hist[k].result[f] = hist[k].plugin[f]

\* An entry that had a name and no download URL was fetched, got the download
\* URL and a description from the answers, and the file was written.
C14_Witness ==
    /\ pc = "F_done"
    /\ \E k \in 1..Len(hist) :
          /\ hist[k].plugin = FillEntry(GithubUrl, {"download_url", "description"})
          /\ hist[k].result.download_url = DownloadUrl
          /\ hist[k].result.description = "new"
          /\ catalogue[hist[k].id] = hist[k].result

\* The iteration asked get_repo_info.
Asked(visit) == visit.resps # << >>

\* C15 as claimed (needs-fetch decision): an iteration calls get_repo_info
\* exactly when the entry has a GitHub repository and its name, author or
\* description is absent or its icon file is absent.
C15_NeedsFetchNameAuthorDescriptionIcon ==
    \A k \in 1..Len(hist) :
        Asked(hist[k]) <=>
            /\ ~InvalidRepo(hist[k].plugin)
            /\ \/ hist[k].plugin.name = None
               \/ hist[k].plugin.author = None
               \/ hist[k].plugin.description = None
               \/ ~hist[k].had_icon

\* C15 as amended: an iteration calls get_repo_info exactly when the entry has
\* a GitHub repository and its name, author, download_url or description is
\* absent or its icon file is absent.
C15_NeedsFetchAnyFillFieldOrIcon ==
    \A k \in 1..Len(hist) :
        Asked(hist[k]) <=>
            /\ ~InvalidRepo(hist[k].plugin)
            /\ \/ \E f \in FillFields : hist[k].plugin[f] = None
               \/ ~hist[k].had_icon

\* Of two entries on GitHub with their icon files, the complete one was
\* passed over and the one that lacks only the download URL was fetched.
C15_Witness ==
    /\ Len(hist) = 2
    /\ hist[1].plugin = FillEntry(GithubUrl, {})
    /\ hist[1].had_icon
    /\ ~Asked(hist[1])
    /\ hist[2].plugin = FillEntry(GithubUrl, {"download_url"})
    /\ hist[2].had_icon
    /\ Asked(hist[2])

\* C18 as claimed (rate-limit stop in FillMissingData.py): an iteration whose
\* get_repo_info answer is the rate-limit response raises nothing, leaves its
\* entry as it was, makes no further request and is the last one: the loop is
\* left for the write, data holding what the earlier iterations filled.
C18_FillStopsOnRateLimit ==
    \A k \in 1..Len(hist) :
        (Asked(hist[k]) /\ Last(hist[k].resps).status_code = 403) =>
            /\ hist[k].raised = None
            /\ hist[k].result = hist[k].plugin
            /\ hist[k].more = {}
            /\ k = Len(hist)
            /\ pc \in {"F_write", "F_done"}
            /\ \A j \in 1..(k - 1) : data[hist[j].id] = hist[j].result

\* The answer is an empty document or an error document other than the
\* rate-limit one, without repository name and owner.
NoMetadata(repo_info) ==
    /\ repo_info.status_code # 403
    /\ \/ repo_info.json = {}
       \/ ~HasKey(repo_info.json, "name") /\ ~HasKey(repo_info.json, "owner.login")

\* C19 as claimed (per-record failures are never fatal in FillMissingData.py):
\* an iteration whose get_repo_info answer is empty or an error document
\* without name and owner raises no exception and leaves its entry as it was.
C19_FillFailureNotFatal ==
    \A k \in 1..Len(hist) :
        (Asked(hist[k]) /\ NoMetadata(Last(hist[k].resps))) =>
            /\ hist[k].raised = None
            /\ hist[k].result = hist[k].plugin

\* ============================ update_descriptions.py and UpdateDescriptions.py

\* SpecSkip: a process of either script, given mode flags only, so that the
\* flags are read before the first entry is taken and every entry is taken
\* once.

\* The mode flags as UpdateDescriptions.py compares them.
LegacyModeFlags == {"--skip-update", "--wait-on-rate-limit"}

InitSkip ==
    \/ InitResume
    \/ InitLegacy /\ argv \in SeqsUpTo(LegacyModeFlags, MaxArgs)

NextSkip ==
    \/ Next
    \/ NextLegacy

SpecSkip == InitSkip /\ [][NextSkip]_vars

\* The call counted its entry in the counter c and in no other one.
CountedIn(call, c) ==
    /\ call.after[c] = call.before[c] + 1
    /\ Moved(call.before, call.after) = {c}

\* C16 (skip-update mode, both scripts): with skip-update on, a call for an
\* entry that has a description makes no fetch, leaves the entry as it was
\* and counts it once in skipped; with skip-update off, a call for an entry
\* with a GitHub repository fetches, with or without a description, and a
\* call that counted a success wrote the description of the response and
\* left every other field as it was.
C16_SkipUpdateMode ==
    \A k \in 1..Len(hist) :
        /\ (skip_update /\ hist[k].plugin.description # None) =>
              /\ hist[k].ended
              /\ hist[k].resps = << >>
              /\ hist[k].result = hist[k].plugin
              /\ CountedIn(hist[k], "skipped")
        /\ (~skip_update /\ ~InvalidRepo(hist[k].plugin)) =>
              /\ hist[k].resps # << >>
              /\ ~CountedIn(hist[k], "skipped")
        /\ (~skip_update /\ hist[k].ended /\ CountedIn(hist[k], "succeeded")) =>
              /\ hist[k].resps # << >>
              /\ hist[k].result =
                    [hist[k].plugin EXCEPT !.description =
                        JsonGet(Last(hist[k].resps).json, "description", "")]
              /\ hist[k].result.repository = hist[k].plugin.repository

\* UpdateDescriptions.py --skip-update passed over a described entry and
\* fetched an undescribed one, writing its description.
C16_Witness ==
    /\ argv = << "--skip-update" >>
    /\ pc = "done"
    /\ Len(hist) = 2
    /\ hist[1].plugin = [repository |-> GithubUrl, description |-> "old"]
    /\ hist[1].resps = << >>
    /\ hist[2].plugin = [repository |-> GithubUrl, description |-> None]
    /\ hist[2].result.description = "new"

\* ======================= update_descriptions.py and FillMissingData.py, twice

\* SpecTwice: a process of update_descriptions.py (mode flags only) or of
\* FillMissingData.py in which every answer of get_repo_info was a success,
\* and then a second process of the same script with the same arguments on
\* the file the first one wrote, the icon store being as the first left it.
\* The second process of FillMissingData.py gets from get_repo_info what the
\* first one got (GivenTo); that of update_descriptions.py gets any answer.

\* Every answer the calls of the log got carried metadata.
AllUsable(log) ==
    \A k \in 1..Len(log) : \A n \in 1..Len(log[k].resps) : Usable(log[k].resps[n])

\* update_descriptions.py has ended; it is started again with its arguments.
again ==
    /\ pc = "done"
    /\ prev = << >>
    /\ AllUsable(hist)
    /\ prev' = << Left >>
    /\ Start(argv)
    /\ UNCHANGED << updateAll, icons >>

\* FillMissingData.py has ended; it is started again with its arguments:
\* main loads the file (lines 117-118).
F_again ==
    /\ pc = "F_done"
    /\ prev = << >>
    /\ AllUsable(hist)
    /\ prev' = << Left >>
    /\ data' = catalogue
    /\ file_written' = FALSE
    /\ ids' = << >>
    /\ i' = 0
    /\ pc' = "F_start"
    /\ hist' = << >>
    /\ UNCHANGED << argv, catalogue, all_ids, exc, icons >>
    /\ UNCHANGED unused

InitTwice ==
    \/ InitResume
    \/ InitFill

NextTwice ==
    \/ Next
    \/ again
    \/ NextFill
    \/ F_again

SpecTwice == InitTwice /\ [][NextTwice]_vars

\* The call c of the second run got what the call p of the first run got for
\* the same identifier: the same answers of get_repo_info, successful ones,
\* and, where it asked find_download_url, the same answer.
SameAnswers(c, p) ==
    /\ p.id = c.id
    /\ p.ended
    /\ p.resps = c.resps
    /\ \A n \in 1..Len(c.resps) : Usable(c.resps[n])
    /\ ("dl" \in DOMAIN c /\ c.dl # NotAsked) => p.dl = c.dl

\* C13 (idempotence): in the second run over the catalogue the first run
\* wrote, a call that made no fetch, or whose answers were the successful
\* answers the first run got for the same identifier, ends with every field
\* of its entry as it found it.
C13_Idempotent ==
    prev # << >> =>
        \A k \in 1..Len(hist) :
            (\/ hist[k].resps = << >> /\ hist[k].ended
             \/ \E j \in 1..Len(prev[1].hist) : SameAnswers(hist[k], prev[1].hist[j]))
                => hist[k].result = hist[k].plugin

\* The first run of FillMissingData.py filled an entry but found no download
\* URL; the second run fetched the entry again, got the same answers and wrote
\* the file with the entry as it found it.
C13_Witness ==
    /\ prev # << >>
    /\ pc = "F_done"
    /\ Len(hist) = 1
    /\ Asked(hist[1])
    /\ hist[1].dl = None
    /\ SameAnswers(hist[1], prev[1].hist[1])
    /\ prev[1].hist[1].result # prev[1].hist[1].plugin
    /\ catalogue[hist[1].id] = hist[1].plugin

\* C21 as claimed (catalogue shape is preserved by UpdateDescriptions.py):
\* whenever main has written the catalogue file, the file holds a mapping
\* with exactly the identifiers that were loaded, each with its repository,
\* and never a status code.
C21_LegacyWritesCatalogue ==
    file_written =>
        /\ catalogue # JustNumber(403)
        /\ DOMAIN catalogue = Range(all_ids)
        /\ \A id \in Range(all_ids) : "repository" \in DOMAIN catalogue[id]

\* The process of update_descriptions.py is over: exit(1), the end of main,
\* or an exception.
Over == pc \in {"exit", "done", "crashed"}

\* C22 as claimed (the final report never crashes in update_descriptions.py):
\* for every catalogue, the empty one too, and every valid selection, a
\* process that is over and that no interrupt ended has written the catalogue
\* and printed the counts and the success percentage, and raised nothing.
C22_FinalReportNeverRaises ==
    (~InputError /\ Over /\ exc # "KeyboardInterrupt") =>
        /\ file_written
        /\ pc = "done"
        /\ exc = None

====
